---- MODULE Spec2Model ----
(***************************************************************************)
(* A model of src/final_process.py: an MPI program in which `size`         *)
(* processes each stream the same line-oriented tweet file, process the    *)
(* lines whose index is congruent to their rank, and in which rank 0 (the  *)
(* master) collects and merges the per-rank counts.                        *)
(*                                                                         *)
(* Coordinates are integers: a cell is CellSize units wide and high, so    *)
(* that every cell has interior points, edge points and corner points.     *)
(* A text is a sequence of whitespace-separated tokens; a token is the     *)
(* lower-cased word it normalises to, together with what normalisation     *)
(* removes (upper case, trailing punctuation).                             *)
(***************************************************************************)
EXTENDS Integers, Sequences, FiniteSets, TLC

VARIABLES
    size,               \* comm.Get_size()
    file,               \* the lines of the twitter file
    gridBoundary,       \* global gridBoundary, in dict (insertion) order
    sentimentWords,     \* global sentimentWords: term -> score
    pc,                 \* rank -> where the process is
    line,               \* rank -> index i of the next line enumerate() yields
    results,            \* rank -> the dict `results` of getResults
    loop,               \* the master's loop index i (get_tweets, exit loop)
    total_slave_counts, \* master_tweet_processor / get_tweets
    counts_master,      \* master_tweet_processor
    report,             \* the rows the master has printed
    inbox,              \* rank -> messages in flight from the master (tag rank)
    outbox,             \* rank -> messages in flight to the master (tag 0)
    sent,               \* history: rank -> what has been sent and received
    location,           \* getGrid's argument
    gridID,             \* getGrid's result
    tweet,              \* calculateSentimentScore's argument
    total,              \* calculateSentimentScore's result
    parts,              \* the per-process dicts handed to update_counts
    todo,               \* the indices of parts not merged yet
    merged,             \* the dict update_counts has built so far
    phase               \* "program", or "input" / "output" of a function

progVars == <<size, file, pc, line, results, loop, total_slave_counts,
              counts_master, report, inbox, outbox, sent>>
gridVars == <<location, gridID>>
scoreVars == <<tweet, total>>
mergeVars == <<parts, todo, merged>>
vars == <<progVars, gridBoundary, sentimentWords, gridVars, scoreVars, mergeVars, phase>>

----------------------------------------------------------------------------
(* Bounds *)

MaxSize == 3        \* processes
MaxLines == 3       \* lines of the twitter file
CellSize == 2       \* width and height of a grid cell
Margin == 1         \* how far outside the grid a coordinate may lie
MaxWords == 3       \* tokens of a text
MaxParts == 3       \* dicts merged by update_counts

MASTER_RANK == 0

Range(s) == {s[i] : i \in 1..Len(s)}

Reverse(s) == [i \in 1..Len(s) |-> s[Len(s) + 1 - i]]

----------------------------------------------------------------------------
(* The grid: getCoordinates and getGrid *)

Cell(id, col, row) ==
    [id |-> id,
     x_min |-> (col - 1) * CellSize, x_max |-> col * CellSize,
     y_min |-> row * CellSize, y_max |-> (row + 1) * CellSize]

\* The Melbourne grid the cell ids of getGrid belong to: rows A (top) to D
\* (bottom), columns 1 to 5, in the order of the grid file.
MelbGrid ==
    << Cell("A1", 1, 3), Cell("A2", 2, 3), Cell("A3", 3, 3), Cell("A4", 4, 3),
       Cell("B1", 1, 2), Cell("B2", 2, 2), Cell("B3", 3, 2), Cell("B4", 4, 2),
       Cell("C1", 1, 1), Cell("C2", 2, 1), Cell("C3", 3, 1), Cell("C4", 4, 1),
       Cell("C5", 5, 1),
       Cell("D3", 3, 0), Cell("D4", 4, 0), Cell("D5", 5, 0) >>

Grids == {MelbGrid, Reverse(MelbGrid)}

Coords == {<<x, y>> : x \in (0 - Margin)..(5 * CellSize + Margin),
                      y \in (0 - Margin)..(4 * CellSize + Margin)}

\* x_min < x <= x_max and y_min < y <= y_max
Standard(c, x, y) ==
    c.x_min < x /\ x <= c.x_max /\ c.y_min < y /\ y <= c.y_max

LeftEdge(c, x, y) == x = c.x_min /\ c.y_min < y /\ y <= c.y_max

BottomEdge(c, x, y) == c.x_min < x /\ x <= c.x_max /\ y = c.y_min

\* The branch of getGrid's loop body for cell c: TRUE iff it returns c.id.
CellMatches(c, x, y) ==
    CASE c.id \in {"A1", "B1"} -> LeftEdge(c, x, y) \/ Standard(c, x, y)
      [] c.id \in {"C1", "D3"} ->
            LeftEdge(c, x, y) \/ BottomEdge(c, x, y) \/ Standard(c, x, y)
      [] c.id \in {"C2", "D4", "D5"} -> y = c.y_min \/ Standard(c, x, y)
      [] OTHER -> Standard(c, x, y)

RECURSIVE ScanGrid(_, _, _, _)
ScanGrid(grid, k, x, y) ==
    IF k > Len(grid) THEN "not_found"
    ELSE IF CellMatches(grid[k], x, y) THEN grid[k].id
    ELSE ScanGrid(grid, k + 1, x, y)

getGrid(grid, loc) == ScanGrid(grid, 1, loc[1], loc[2])

----------------------------------------------------------------------------
(* The lexicon: getSentimentWords and calculateSentimentScore *)

Words == {"not", "good", "day"}

Tokens == [w : Words, up : BOOLEAN, p : BOOLEAN]

Tok(w) == [w |-> w, up |-> FALSE, p |-> FALSE]

RECURSIVE SeqsUpTo(_, _)
SeqsUpTo(S, n) ==
    IF n = 0 THEN {<< >>}
    ELSE LET shorter == SeqsUpTo(S, n - 1)
         IN  shorter \cup {Append(s, e) : s \in {t \in shorter : Len(t) = n - 1}, e \in S}

Texts == SeqsUpTo(Tokens, MaxWords)

\* A term is the sequence of its words (key.split()).
Lexicon1 == (<<"not", "good">> :> (0 - 3)) @@ (<<"good">> :> 3)
Lexicon2 == (<<"good", "day">> :> 2) @@ (<<"not">> :> (0 - 1)) @@ (<<"day">> :> 1)

Lexicons == {Lexicon1, Lexicon2}

\* getSentimentWords: the terms of more than one word
phrasal_words(lex) == {t \in DOMAIN lex : Len(t) > 1}

\* The regular expression of a phrase matches at token k of the text: the
\* words agree (IGNORECASE) and only single blanks separate them, so no
\* token but the last carries trailing punctuation.
PhraseAt(text, k, term) ==
    /\ k + Len(term) - 1 <= Len(text)
    /\ \A j \in 1..Len(term) :
          /\ text[k + j - 1].w = term[j]
          /\ j < Len(term) => ~text[k + j - 1].p

\* len(re.findall(pattern, tweet)): the non-overlapping matches, left to right
RECURSIVE CountMatches(_, _, _)
CountMatches(text, k, term) ==
    IF k > Len(text) THEN 0
    ELSE IF PhraseAt(text, k, term)
         THEN 1 + CountMatches(text, k + Len(term), term)
         ELSE CountMatches(text, k + 1, term)

RECURSIVE SumOver(_, _, _, _)
SumOver(lex, text, terms, acc) ==
    IF terms = {} THEN acc
    ELSE LET t == CHOOSE u \in terms : TRUE
         IN  SumOver(lex, text, terms \ {t},
                     acc + lex[t] * CountMatches(text, 1, t))

\* The list `found`: the phrasal terms with at least one match
Found(lex, text) ==
    {t \in phrasal_words(lex) : CountMatches(text, 1, t) > 0}

\* new_word: the token stripped of quotes and punctuation, lower-cased
NewWord(token) == <<token.w>>

\* The second loop of calculateSentimentScore, from token k on
RECURSIVE ScoreWords(_, _, _, _)
ScoreWords(lex, text, found, k) ==
    IF k > Len(text) THEN 0
    ELSE LET new_word == NewWord(text[k])
             rest == ScoreWords(lex, text, found, k + 1)
         IN  IF new_word \in found THEN rest
             ELSE IF new_word \in DOMAIN lex THEN lex[new_word] + rest
             ELSE rest

calculateSentimentScore(lex, text) ==
    SumOver(lex, text, phrasal_words(lex), 0)
        + ScoreWords(lex, text, Found(lex, text), 1)

----------------------------------------------------------------------------
(* The counts: update_counts *)

EmptyCounts == [g \in {} |-> [tweetCount |-> 0, tweetScore |-> 0]]

\* Mutant: an existing entry is overwritten (=) instead of added to (+=)
update_counts_Overwrite(counts, total_counts) ==
    [g \in DOMAIN counts \cup DOMAIN total_counts |->
        IF g \in DOMAIN counts THEN counts[g] ELSE total_counts[g]]

\* update_counts(counts, total_counts): every gridID of counts is added to
\* the entry total_counts has for it, or copied when it has none.
update_counts(counts, total_counts) ==
    [g \in DOMAIN counts \cup DOMAIN total_counts |->
        IF g \in DOMAIN counts
        THEN IF g \in DOMAIN total_counts
             THEN [tweetCount |-> total_counts[g].tweetCount + counts[g].tweetCount,
                   tweetScore |-> total_counts[g].tweetScore + counts[g].tweetScore]
             ELSE [tweetCount |-> counts[g].tweetCount,
                   tweetScore |-> counts[g].tweetScore]
        ELSE total_counts[g]]

----------------------------------------------------------------------------
(* The twitter file: tweet_to_json and getResults *)

\* A line: whether json.loads accepts it once cleaned, which of the keys
\* value/geometry/coordinates and value/properties/text it has, and these.
MkLine(json, hasCoordinates, hasText, coordinates, text) ==
    [json |-> json, hasCoordinates |-> hasCoordinates, hasText |-> hasText,
     coordinates |-> coordinates, text |-> text]

InA1 == <<1, 3 * CellSize + 1>>
InC2 == <<CellSize + 1, CellSize + 1>>
Outside == <<0 - Margin, 0 - Margin>>

TweetGood == MkLine(TRUE, TRUE, TRUE, InA1, <<Tok("good")>>)
TweetNotGood == MkLine(TRUE, TRUE, TRUE, InC2, <<Tok("not"), Tok("good")>>)
TweetOutside == MkLine(TRUE, TRUE, TRUE, Outside, <<Tok("good"), Tok("day")>>)
NotJSON == MkLine(FALSE, FALSE, FALSE, <<0, 0>>, << >>)
NoCoordinates == MkLine(TRUE, FALSE, TRUE, <<0, 0>>, <<Tok("good")>>)
NoText == MkLine(TRUE, TRUE, FALSE, InA1, << >>)

Lines == {TweetGood, TweetNotGood, TweetOutside, NotJSON, NoCoordinates, NoText}

Files == SeqsUpTo(Lines, MaxLines)

Ranks == 0..(size - 1)

Slaves == 1..(size - 1)

\* Mutant: the ranks taken to start at 1
Owns_RankFromOne(line_count, processes, rank) == line_count % processes = rank + 1

\* Mutant: no ownership test, every process handles every line
Owns_All(line_count, processes, rank) == line_count >= 0

\* line_count % processes == rank
Owns(line_count, processes, rank) == line_count % processes = rank

\* What the body of getResults' loop does with line i for this rank:
\* "skip" (not this rank's line), "ValueError" (caught and printed),
\* "KeyError" (not caught), "not_found" (continue) or "count".
Outcome(rank, i) ==
    LET l == file[i + 1]
    IN  IF ~Owns(i, size, rank) THEN "skip"
        ELSE IF ~l.json THEN "ValueError"
        ELSE IF ~l.hasCoordinates THEN "KeyError"
        ELSE IF getGrid(gridBoundary, l.coordinates) = "not_found" THEN "not_found"
        ELSE IF ~l.hasText THEN "KeyError"
        ELSE "count"

\* Mutant: counts[tweetLocation] = {...} also when the key is there
Counted_Replace(res, l) ==
    LET tweetLocation == getGrid(gridBoundary, l.coordinates)
        score == calculateSentimentScore(sentimentWords, l.text)
    IN  [g \in DOMAIN res \cup {tweetLocation} |->
            IF g = tweetLocation
            THEN [tweetCount |-> 1, tweetScore |-> score]
            ELSE res[g]]

\* results after the line has been counted
Counted(res, l) ==
    LET tweetLocation == getGrid(gridBoundary, l.coordinates)
        score == calculateSentimentScore(sentimentWords, l.text)
    IN  IF tweetLocation \in DOMAIN res
        THEN [res EXCEPT ![tweetLocation] =
                 [tweetCount |-> @.tweetCount + 1, tweetScore |-> @.tweetScore + score]]
        ELSE [g \in DOMAIN res \cup {tweetLocation} |->
                 IF g = tweetLocation
                 THEN [tweetCount |-> 1, tweetScore |-> score]
                 ELSE res[g]]

\* The index of the first line from i on that the rank owns, Len(file) if
\* there is none: the iterations before it fail the ownership test and do
\* nothing.
RECURSIVE NextOwned(_, _)
NextOwned(rank, i) ==
    IF i >= Len(file) \/ Owns(i, size, rank) THEN i ELSE NextOwned(rank, i + 1)

\* The iterations of `for i, tweet in enumerate(file)` in getResults up to
\* and including the next line of this rank.
GetResultsLine(rank) ==
    /\ pc[rank] = "getResults"
    /\ line[rank] < Len(file)
    /\ LET i == NextOwned(rank, line[rank])
           what == IF i < Len(file) THEN Outcome(rank, i) ELSE "skip"
       IN  /\ line' = [line EXCEPT ![rank] = IF i < Len(file) THEN i + 1 ELSE i]
           /\ results' = IF what = "count"
                         THEN [results EXCEPT ![rank] = Counted(@, file[i + 1])]
                         ELSE results
           /\ pc' = IF what = "KeyError"
                    THEN [pc EXCEPT ![rank] = "KeyError"]
                    ELSE pc
    /\ UNCHANGED <<size, file, loop, total_slave_counts, counts_master, report,
                   inbox, outbox, sent>>
    /\ UNCHANGED <<gridBoundary, sentimentWords, gridVars, scoreVars, mergeVars, phase>>

----------------------------------------------------------------------------
(* The processes: master_tweet_processor, get_tweets, slave_tweet_processor *)

NoHistory == [return_data |-> 0, exit |-> 0, counts |-> 0, received |-> 0]

otherVars == <<gridBoundary, sentimentWords, gridVars, scoreVars, mergeVars, phase>>

\* Mutant: the call of get_tweets is left out, 'exit' is sent at once
MasterGetResults_NoCollect ==
    /\ pc[MASTER_RANK] = "getResults"
    /\ line[MASTER_RANK] = Len(file)
    /\ counts_master' = results[MASTER_RANK]
    /\ pc' = [pc EXCEPT ![MASTER_RANK] = IF size > 1 THEN "send_exit" ELSE "print"]
    /\ loop' = 0
    /\ UNCHANGED <<size, file, line, results, total_slave_counts, report,
                   inbox, outbox, sent>>
    /\ UNCHANGED otherVars

\* master_tweet_processor: counts_master = getResults(...), then `if size > 1`
MasterGetResults ==
    /\ pc[MASTER_RANK] = "getResults"
    /\ line[MASTER_RANK] = Len(file)
    /\ counts_master' = results[MASTER_RANK]
    /\ pc' = [pc EXCEPT ![MASTER_RANK] = IF size > 1 THEN "send_return_data" ELSE "print"]
    /\ loop' = 0
    /\ UNCHANGED <<size, file, line, results, total_slave_counts, report,
                   inbox, outbox, sent>>
    /\ UNCHANGED otherVars

\* get_tweets, first loop: comm.send('return_data', dest=i+1, tag=i+1)
SendReturnData ==
    /\ pc[MASTER_RANK] = "send_return_data"
    /\ loop < size - 1
    /\ inbox' = [inbox EXCEPT ![loop + 1] = Append(@, "return_data")]
    /\ sent' = [sent EXCEPT ![loop + 1].return_data = @ + 1]
    /\ loop' = IF loop + 1 < size - 1 THEN loop + 1 ELSE 0
    /\ pc' = IF loop + 1 < size - 1 THEN pc
             ELSE [pc EXCEPT ![MASTER_RANK] = "recv_counts"]
    /\ UNCHANGED <<size, file, line, results, total_slave_counts, counts_master,
                   report, outbox>>
    /\ UNCHANGED otherVars

\* Mutant: comm.recv(source=MPI.ANY_SOURCE, tag=0)
RecvCounts_AnySource ==
    /\ pc[MASTER_RANK] = "recv_counts"
    /\ loop < size - 1
    /\ \E source \in Slaves :
          /\ outbox[source] # << >>
          /\ total_slave_counts' = update_counts(Head(outbox[source]), total_slave_counts)
          /\ outbox' = [outbox EXCEPT ![source] = Tail(@)]
          /\ sent' = [sent EXCEPT ![source].received = @ + 1]
    /\ loop' = IF loop + 1 < size - 1 THEN loop + 1 ELSE 0
    /\ pc' = IF loop + 1 < size - 1 THEN pc
             ELSE [pc EXCEPT ![MASTER_RANK] = "send_exit"]
    /\ UNCHANGED <<size, file, line, results, counts_master, report, inbox>>
    /\ UNCHANGED otherVars

\* Mutant: a recv that gives up on a slave that has sent nothing
RecvCounts_Timeout ==
    /\ pc[MASTER_RANK] = "recv_counts"
    /\ loop < size - 1
    /\ total_slave_counts' = IF outbox[loop + 1] # << >>
                             THEN update_counts(Head(outbox[loop + 1]), total_slave_counts)
                             ELSE total_slave_counts
    /\ outbox' = IF outbox[loop + 1] # << >>
                 THEN [outbox EXCEPT ![loop + 1] = Tail(@)]
                 ELSE outbox
    /\ sent' = IF outbox[loop + 1] # << >>
               THEN [sent EXCEPT ![loop + 1].received = @ + 1]
               ELSE sent
    /\ loop' = IF loop + 1 < size - 1 THEN loop + 1 ELSE 0
    /\ pc' = IF loop + 1 < size - 1 THEN pc
             ELSE [pc EXCEPT ![MASTER_RANK] = "send_exit"]
    /\ UNCHANGED <<size, file, line, results, counts_master, report, inbox>>
    /\ UNCHANGED otherVars

\* get_tweets, second loop: update_counts(comm.recv(source=i+1, tag=0), ...);
\* after the last one get_tweets returns and the exit loop starts.
RecvCounts ==
    /\ pc[MASTER_RANK] = "recv_counts"
    /\ loop < size - 1
    /\ outbox[loop + 1] # << >>
    /\ total_slave_counts' = update_counts(Head(outbox[loop + 1]), total_slave_counts)
    /\ outbox' = [outbox EXCEPT ![loop + 1] = Tail(@)]
    /\ sent' = [sent EXCEPT ![loop + 1].received = @ + 1]
    /\ loop' = IF loop + 1 < size - 1 THEN loop + 1 ELSE 0
    /\ pc' = IF loop + 1 < size - 1 THEN pc
             ELSE [pc EXCEPT ![MASTER_RANK] = "send_exit"]
    /\ UNCHANGED <<size, file, line, results, counts_master, report, inbox>>
    /\ UNCHANGED otherVars

\* Mutant: the exit loop ends after its first send
SendExit_OnlyFirst ==
    /\ pc[MASTER_RANK] = "send_exit"
    /\ loop < size - 1
    /\ inbox' = [inbox EXCEPT ![loop + 1] = Append(@, "exit")]
    /\ sent' = [sent EXCEPT ![loop + 1].exit = @ + 1]
    /\ loop' = 0
    /\ pc' = [pc EXCEPT ![MASTER_RANK] = "print"]
    /\ UNCHANGED <<size, file, line, results, total_slave_counts, counts_master,
                   report, outbox>>
    /\ UNCHANGED otherVars

\* master_tweet_processor: comm.send('exit', dest=(i+1), tag=(i+1))
SendExit ==
    /\ pc[MASTER_RANK] = "send_exit"
    /\ loop < size - 1
    /\ inbox' = [inbox EXCEPT ![loop + 1] = Append(@, "exit")]
    /\ sent' = [sent EXCEPT ![loop + 1].exit = @ + 1]
    /\ loop' = IF loop + 1 < size - 1 THEN loop + 1 ELSE 0
    /\ pc' = IF loop + 1 < size - 1 THEN pc
             ELSE [pc EXCEPT ![MASTER_RANK] = "print"]
    /\ UNCHANGED <<size, file, line, results, total_slave_counts, counts_master,
                   report, outbox>>
    /\ UNCHANGED otherVars

\* sorted(counts.keys()): the cell ids in ascending order
SortedIDs ==
    << "A1", "A2", "A3", "A4", "B1", "B2", "B3", "B4",
       "C1", "C2", "C3", "C4", "C5", "D3", "D4", "D5" >>

InCounts(counts, g) == g \in DOMAIN counts

\* Mutant: sorted(..., reverse=True)
Rows_Reversed(counts) ==
    LET keys == Reverse(SelectSeq(SortedIDs, LAMBDA g : InCounts(counts, g)))
    IN  [k \in 1..Len(keys) |->
            [grid |-> keys[k], count |-> counts[keys[k]].tweetCount,
             score |-> counts[keys[k]].tweetScore]]

Rows(counts) ==
    LET keys == SelectSeq(SortedIDs, LAMBDA g : InCounts(counts, g))
    IN  [k \in 1..Len(keys) |->
            [grid |-> keys[k], count |-> counts[keys[k]].tweetCount,
             score |-> counts[keys[k]].tweetScore]]

\* Mutant: the slaves' total is reported, the master's own counts dropped
FinalCounts_SlavesOnly(own, slaves) == slaves

\* `if total_slave_counts: counts_master = update_counts(counts_master, ...)`
FinalCounts(own, slaves) ==
    IF slaves # EmptyCounts THEN update_counts(own, slaves) ELSE own

\* master_tweet_processor: the merge with its own counts and the printed rows
PrintReport ==
    /\ pc[MASTER_RANK] = "print"
    /\ counts_master' = FinalCounts(counts_master, total_slave_counts)
    /\ report' = Rows(counts_master')
    /\ pc' = [pc EXCEPT ![MASTER_RANK] = "done"]
    /\ UNCHANGED <<size, file, line, results, loop, total_slave_counts,
                   inbox, outbox, sent>>
    /\ UNCHANGED otherVars

\* slave_tweet_processor: counts = getResults(...), then the receive loop
SlaveGetResults(rank) ==
    /\ rank # MASTER_RANK
    /\ pc[rank] = "getResults"
    /\ line[rank] = Len(file)
    /\ pc' = [pc EXCEPT ![rank] = "recv"]
    /\ UNCHANGED <<size, file, line, results, loop, total_slave_counts,
                   counts_master, report, inbox, outbox, sent>>
    /\ UNCHANGED otherVars

\* `in_comm in "return_data"`, `in_comm in "exit"`: in_comm is a substring.
\* Of the two messages the master sends, each is a substring of itself only.
IsIn(in_comm, command) == in_comm = command

\* What the body of the receive loop does with in_comm
SlaveDoes(in_comm) ==
    IF IsIn(in_comm, "return_data") THEN "send"
    ELSE IF IsIn(in_comm, "exit") THEN "exit"
    ELSE "ignore"

\* Mutant: the slave empties its dict once it has sent it
SlaveRecv_Clear(rank) ==
    /\ rank # MASTER_RANK
    /\ pc[rank] = "recv"
    /\ inbox[rank] # << >>
    /\ LET in_comm == Head(inbox[rank])
           does == SlaveDoes(in_comm)
       IN  /\ inbox' = [inbox EXCEPT ![rank] = Tail(@)]
           /\ outbox' = IF does = "send"
                        THEN [outbox EXCEPT ![rank] = Append(@, results[rank])]
                        ELSE outbox
           /\ results' = IF does = "send"
                         THEN [results EXCEPT ![rank] = EmptyCounts]
                         ELSE results
           /\ sent' = IF does = "send"
                      THEN [sent EXCEPT ![rank].counts = @ + 1]
                      ELSE sent
           /\ pc' = IF does = "exit" THEN [pc EXCEPT ![rank] = "exited"] ELSE pc
    /\ UNCHANGED <<size, file, line, loop, total_slave_counts,
                   counts_master, report>>
    /\ UNCHANGED otherVars

\* slave_tweet_processor: in_comm = comm.recv(source=MASTER_RANK, tag=rank)
\* and what follows it. Messages of one sender and tag do not overtake.
SlaveRecv(rank) ==
    /\ rank # MASTER_RANK
    /\ pc[rank] = "recv"
    /\ inbox[rank] # << >>
    /\ LET in_comm == Head(inbox[rank])
           does == SlaveDoes(in_comm)
       IN  /\ inbox' = [inbox EXCEPT ![rank] = Tail(@)]
           /\ outbox' = IF does = "send"
                        THEN [outbox EXCEPT ![rank] = Append(@, results[rank])]
                        ELSE outbox
           /\ sent' = IF does = "send"
                      THEN [sent EXCEPT ![rank].counts = @ + 1]
                      ELSE sent
           /\ pc' = IF does = "exit" THEN [pc EXCEPT ![rank] = "exited"] ELSE pc
    /\ UNCHANGED <<size, file, line, results, loop, total_slave_counts,
                   counts_master, report>>
    /\ UNCHANGED otherVars

----------------------------------------------------------------------------
(* The program *)

IdleGrid == location = <<0, 0>> /\ gridID = "none"
IdleScore == tweet = << >> /\ total = 0
IdleMerge == parts = << >> /\ todo = {} /\ merged = EmptyCounts

\* main(): every process has loaded the lexicon and the grid and enters its
\* processor; nothing is in flight.
Init ==
    /\ size \in 1..MaxSize
    /\ file \in Files
    /\ gridBoundary = MelbGrid
    /\ sentimentWords = Lexicon1
    /\ pc = [r \in Ranks |-> "getResults"]
    /\ line = [r \in Ranks |-> 0]
    /\ results = [r \in Ranks |-> EmptyCounts]
    /\ loop = 0
    /\ total_slave_counts = EmptyCounts
    /\ counts_master = EmptyCounts
    /\ report = << >>
    /\ inbox = [r \in Ranks |-> << >>]
    /\ outbox = [r \in Ranks |-> << >>]
    /\ sent = [r \in Ranks |-> NoHistory]
    /\ IdleGrid /\ IdleScore /\ IdleMerge
    /\ phase = "program"

Next ==
    \/ \E rank \in Ranks : GetResultsLine(rank)
    \/ MasterGetResults
    \/ SendReturnData
    \/ RecvCounts
    \/ SendExit
    \/ PrintReport
    \/ \E rank \in Ranks : SlaveGetResults(rank)
    \/ \E rank \in Ranks : SlaveRecv(rank)

Spec == Init /\ [][Next]_vars

\* The steps of the process of one rank: master_tweet_processor on rank 0,
\* slave_tweet_processor on the others
ProcessStep(rank) ==
    /\ rank \in Ranks
    /\ \/ GetResultsLine(rank)
       \/ SlaveGetResults(rank)
       \/ SlaveRecv(rank)
       \/ /\ rank = MASTER_RANK
          /\ MasterGetResults \/ SendReturnData \/ RecvCounts \/ SendExit \/ PrintReport

\* Every process is scheduled: one that can take a step, and stays able to,
\* takes it. A blocking recv is not a step until its message is there.
FairSpec == Spec /\ \A rank \in 0..(MaxSize - 1) : WF_vars(ProcessStep(rank))

----------------------------------------------------------------------------
(* The functions on their own: an input is drawn, the function is applied *)

IdleProgram ==
    /\ size = 1
    /\ file = << >>
    /\ pc = [r \in {MASTER_RANK} |-> "off"]
    /\ line = [r \in {MASTER_RANK} |-> 0]
    /\ results = [r \in {MASTER_RANK} |-> EmptyCounts]
    /\ loop = 0
    /\ total_slave_counts = EmptyCounts
    /\ counts_master = EmptyCounts
    /\ report = << >>
    /\ inbox = [r \in {MASTER_RANK} |-> << >>]
    /\ outbox = [r \in {MASTER_RANK} |-> << >>]
    /\ sent = [r \in {MASTER_RANK} |-> NoHistory]

\* getGrid(location) on a grid read in either order
InitGrid ==
    /\ IdleProgram /\ IdleScore /\ IdleMerge
    /\ sentimentWords = Lexicon1
    /\ gridBoundary \in Grids
    /\ location \in Coords
    /\ gridID = "none"
    /\ phase = "input"

Classify ==
    /\ phase = "input"
    /\ gridID' = getGrid(gridBoundary, location)
    /\ phase' = "output"
    /\ UNCHANGED <<progVars, gridBoundary, sentimentWords, location, scoreVars, mergeVars>>

SpecGrid == InitGrid /\ [][Classify]_vars

\* calculateSentimentScore(tweet)
InitScore ==
    /\ IdleProgram /\ IdleGrid /\ IdleMerge
    /\ gridBoundary = MelbGrid
    /\ sentimentWords \in Lexicons
    /\ tweet \in Texts
    /\ total = 0
    /\ phase = "input"

Score ==
    /\ phase = "input"
    /\ total' = calculateSentimentScore(sentimentWords, tweet)
    /\ phase' = "output"
    /\ UNCHANGED <<progVars, gridBoundary, sentimentWords, tweet, gridVars, mergeVars>>

SpecScore == InitScore /\ [][Score]_vars

\* update_counts applied to the dicts of the processes, in any order
Entry(count, score) == [tweetCount |-> count, tweetScore |-> score]

Dicts ==
    { EmptyCounts,
      "A1" :> Entry(1, 3),
      "A1" :> Entry(2, 0 - 3),
      "C2" :> Entry(1, 0),
      ("A1" :> Entry(1, 0 - 3)) @@ ("C2" :> Entry(3, 6)) }

InitMerge ==
    /\ IdleProgram /\ IdleGrid /\ IdleScore
    /\ gridBoundary = MelbGrid
    /\ sentimentWords = Lexicon1
    /\ parts \in SeqsUpTo(Dicts, MaxParts)
    /\ todo = DOMAIN parts
    /\ merged = EmptyCounts
    /\ phase = "input"

\* total = update_counts(parts[k], total) for a next process k
Merge(k) ==
    /\ phase = "input"
    /\ k \in todo
    /\ merged' = update_counts(parts[k], merged)
    /\ todo' = todo \ {k}
    /\ UNCHANGED <<progVars, gridBoundary, sentimentWords, gridVars, scoreVars, parts, phase>>

NextMerge == \E k \in 1..MaxParts : Merge(k)

SpecMerge == InitMerge /\ [][NextMerge]_vars

----------------------------------------------------------------------------
(* Claims *)

Finished(rank) == pc[rank] \notin {"getResults", "KeyError"}

\* C1: for every number of processes and every line index of the file,
\* exactly one rank passes the ownership test of getResults, and the lines a
\* process has handled are handled by no other process.
C1_Partition ==
    phase = "program" =>
        \A i \in 0..(Len(file) - 1) :
            /\ Cardinality({r \in Ranks : Owns(i, size, r)}) = 1
            /\ Cardinality({r \in Ranks : line[r] > i /\ Outcome(r, i) # "skip"}) <= 1
            /\ (\A r \in Ranks : line[r] > i) =>
                    Cardinality({r \in Ranks : Outcome(r, i) # "skip"}) = 1

C1_Witness ==
    /\ size = MaxSize
    /\ Len(file) = MaxLines
    /\ \A r \in Ranks : Finished(r)

\* The process has ended: by exit(0), or by the KeyError that left getResults
Terminated(rank) == pc[rank] \in {"exited", "KeyError"}

Unanswered(rank) ==
    sent[rank].return_data > sent[rank].counts \/ "return_data" \in Range(inbox[rank])

\* C2: a slave never terminates while a 'return_data' sent to it is still
\* unanswered: in no step does a slave end with such a request pending.
C2_NoExitWhileUnanswered ==
    [][\A r \in Slaves :
          (~Terminated(r) /\ Terminated(r)') => ~Unanswered(r)']_vars

Outstanding == {r \in Slaves : sent[r].return_data > sent[r].received}

\* C3 as stated: the master asks rank r + 1 only after it has received the
\* counts of rank r, so at most one 'return_data' is outstanding.
C3_OneOutstanding ==
    /\ Cardinality(Outstanding) <= 1
    /\ \A r \in Slaves :
          (r + 1 \in Slaves /\ sent[r + 1].return_data > 0) => sent[r].received > 0

\* C3 as amended: the master first sends 'return_data' to every slave in
\* ascending rank order, and only then receives the counts, one at a time in
\* ascending rank order; up to size - 1 requests are outstanding.
C3_RequestAllThenCollect ==
    /\ \A r \in Slaves :
          /\ sent[r].return_data <= 1
          /\ sent[r].received <= sent[r].return_data
          /\ sent[r].received > 0 => \A q \in Slaves : sent[q].return_data = 1
    /\ \A r, q \in Slaves :
          r < q =>
            /\ sent[q].return_data > 0 => sent[r].return_data > 0
            /\ sent[q].received > 0 => sent[r].received > 0
    /\ Cardinality(Outstanding) <= size - 1

C3_Witness ==
    /\ size >= 3
    /\ Outstanding = Slaves
    /\ pc[MASTER_RANK] = "recv_counts"

\* C4: with more than one process the master sends no 'exit' before it has
\* received the counts of every slave, and then sends exactly one to each.
C4_ExitAfterAllCounts ==
    \A r \in Slaves :
        /\ sent[r].exit <= 1
        /\ sent[r].exit > 0 => \A q \in Slaves : sent[q].received = 1
        /\ pc[MASTER_RANK] \in {"print", "done"} => sent[r].exit = 1

C4_Witness ==
    /\ size >= 3
    /\ pc[MASTER_RANK] = "done"
    /\ \A r \in Slaves : sent[r].exit = 1

RECURSIVE SumCount(_, _, _)
SumCount(ps, g, k) ==
    IF k = 0 THEN 0
    ELSE SumCount(ps, g, k - 1) + (IF g \in DOMAIN ps[k] THEN ps[k][g].tweetCount ELSE 0)

RECURSIVE SumScore(_, _, _)
SumScore(ps, g, k) ==
    IF k = 0 THEN 0
    ELSE SumScore(ps, g, k - 1) + (IF g \in DOMAIN ps[k] THEN ps[k][g].tweetScore ELSE 0)

\* Per cell id, the sums over the dicts that contain it
KeyedSum(ps) ==
    [g \in UNION {DOMAIN ps[k] : k \in 1..Len(ps)} |->
        [tweetCount |-> SumCount(ps, g, Len(ps)), tweetScore |-> SumScore(ps, g, Len(ps))]]

\* C5: update_counts is commutative and associative, and whatever the order
\* in which the dicts are merged, the result is the keyed sum.
C5_MergeOrderIndependent ==
    /\ todo = {} => merged = KeyedSum(parts)
    /\ \A i, j \in DOMAIN parts :
          update_counts(parts[i], parts[j]) = update_counts(parts[j], parts[i])
    /\ \A i, j, k \in DOMAIN parts :
          update_counts(parts[i], update_counts(parts[j], parts[k]))
              = update_counts(update_counts(parts[i], parts[j]), parts[k])

C5_Witness ==
    /\ Len(parts) = MaxParts
    /\ todo = {}
    /\ parts[1] # parts[2]
    /\ \E g \in DOMAIN parts[1] : g \in DOMAIN parts[2] /\ g \in DOMAIN parts[3]

\* The area the cells cover: the closed rectangles
Covered(grid, x, y) ==
    \E k \in 1..Len(grid) :
        /\ grid[k].x_min <= x /\ x <= grid[k].x_max
        /\ grid[k].y_min <= y /\ y <= grid[k].y_max

MatchingCells(grid, x, y) == {k \in 1..Len(grid) : CellMatches(grid[k], x, y)}

\* C6: a coordinate inside the covered area satisfies the rule of exactly
\* one cell, so getGrid finds a cell, the same in either scan order.
C6_ExactlyOneCell ==
    (phase = "output" /\ Covered(gridBoundary, location[1], location[2])) =>
        /\ gridID # "not_found"
        /\ Cardinality(MatchingCells(gridBoundary, location[1], location[2])) = 1
        /\ gridID = getGrid(Reverse(gridBoundary), location)

\* C7: a coordinate outside the covered area is 'not_found', and no cell's
\* rule matches a point outside the cell's own x-span and y-span.
C7_OutsideNotFound ==
    phase = "output" =>
        /\ ~Covered(gridBoundary, location[1], location[2]) => gridID = "not_found"
        /\ \A k \in MatchingCells(gridBoundary, location[1], location[2]) :
              Covered(<<gridBoundary[k]>>, location[1], location[2])

\* The words of the phrases that matched in the text
Constituents(lex, text) == UNION {Range(t) : t \in Found(lex, text)}

RECURSIVE ClaimedWords(_, _, _)
ClaimedWords(lex, text, k) ==
    IF k > Len(text) THEN 0
    ELSE ClaimedWords(lex, text, k + 1)
            + (IF text[k].w \notin Constituents(lex, text) /\ <<text[k].w>> \in DOMAIN lex
               THEN lex[<<text[k].w>>] ELSE 0)

\* C8: the score is the sum of the matched phrases' scores (times their
\* match counts) plus the scores of the words of the text that are in the
\* lexicon and are not words of a matched phrase.
C8_PhrasePriority ==
    phase = "output" =>
        total = SumOver(sentimentWords, tweet, phrasal_words(sentimentWords), 0)
                    + ClaimedWords(sentimentWords, tweet, 1)

\* C9: no line of the file aborts a process: a line that is not JSON or
\* that lacks coordinates or text is skipped and getResults goes on.
C9_RecordFailureNeverAborts ==
    \A r \in Ranks : pc[r] # "KeyError"

\* C10: with one process no message is sent or received, and the counts
\* reported are the counts its own getResults returned.
C10_SingleProcess ==
    (phase = "program" /\ size = 1) =>
        /\ sent[MASTER_RANK] = NoHistory
        /\ inbox[MASTER_RANK] = << >> /\ outbox[MASTER_RANK] = << >>
        /\ pc[MASTER_RANK] \notin {"send_return_data", "recv_counts", "send_exit"}
        /\ pc[MASTER_RANK] = "done" =>
              /\ counts_master = results[MASTER_RANK]
              /\ report = Rows(results[MASTER_RANK])

C10_Witness ==
    /\ size = 1
    /\ pc[MASTER_RANK] = "done"
    /\ Len(report) = 2

\* The dicts the processes' getResults have built, by rank
ResultsSeq == [k \in 1..size |-> results[k - 1]]

\* The place of a cell id in the ascending order of the ids
IdIndex(g) == CHOOSE k \in 1..Len(SortedIDs) : SortedIDs[k] = g

\* C11: the report has exactly one row for every cell id in which some
\* process has counted a record and no other row, in ascending order of the
\* ids, and a row holds the sums of the processes' counts and scores.
C11_ReportRows ==
    pc[MASTER_RANK] = "done" =>
        LET totals == KeyedSum(ResultsSeq)
        IN  /\ {report[k].grid : k \in 1..Len(report)} = UNION {DOMAIN results[r] : r \in Ranks}
            /\ \A j, k \in 1..Len(report) :
                  j < k => IdIndex(report[j].grid) < IdIndex(report[k].grid)
            /\ \A k \in 1..Len(report) :
                  /\ report[k].count = totals[report[k].grid].tweetCount
                  /\ report[k].score = totals[report[k].grid].tweetScore
                  /\ report[k].count >= 1

\* Two rows, one of a cell that two processes have counted records in
C11_Witness ==
    /\ pc[MASTER_RANK] = "done"
    /\ size >= 2
    /\ Len(report) = 2
    /\ \E g \in DOMAIN results[0] : g \in DOMAIN results[1]

----------------------------------------------------------------------------
(* The aggregate a set of lines amounts to, computed from the file alone *)

\* The line parses, has coordinates and a text, and lies in a cell
Classified(l) ==
    /\ l.json /\ l.hasCoordinates /\ l.hasText
    /\ getGrid(gridBoundary, l.coordinates) # "not_found"

CellOf(i) == getGrid(gridBoundary, file[i + 1].coordinates)

RECURSIVE SumScores(_)
SumScores(S) ==
    IF S = {} THEN 0
    ELSE LET i == CHOOSE j \in S : TRUE
         IN  calculateSentimentScore(sentimentWords, file[i + 1].text)
                 + SumScores(S \ {i})

\* idx: a set of line indices, from 0
TallyOf(idx) ==
    LET hit == {i \in idx : Classified(file[i + 1])}
    IN  [g \in {CellOf(i) : i \in hit} |->
            [tweetCount |-> Cardinality({i \in hit : CellOf(i) = g}),
             tweetScore |-> SumScores({i \in hit : CellOf(i) = g})]]

Partition(rank) == {i \in 0..(Len(file) - 1) : Owns(i, size, rank)}

ProcessedSoFar(rank) == {i \in Partition(rank) : i < line[rank]}

Takes(rank) == Len(inbox'[rank]) < Len(inbox[rank])

Sends(rank) == Len(outbox'[rank]) > Len(outbox[rank])

\* C12: a slave takes no message of the master while it is in getResults,
\* the dict it sends is the aggregate of its whole partition, and it does
\* not end while it is in getResults.
C12_ProcessingFirst ==
    [][\A r \in Slaves :
          /\ Takes(r) => pc[r] = "recv" /\ line[r] = Len(file)
          /\ Sends(r) =>
                outbox'[r][Len(outbox'[r])] = TallyOf(Partition(r))
          /\ (~Terminated(r) /\ Terminated(r)') => pc[r] # "getResults"]_vars

\* What holds of it: the two statements about the messages, without the one
\* about the end of the process
C12_NoMessageWhileProcessing ==
    [][\A r \in Slaves :
          /\ Takes(r) => pc[r] = "recv" /\ line[r] = Len(file)
          /\ Sends(r) =>
                outbox'[r][Len(outbox'[r])] = TallyOf(Partition(r))]_vars

\* C13: the step in which a slave answers 'return_data' sends the dict that
\* getResults returned and leaves that dict as it was, so that a second
\* 'return_data' would be answered with the same dict.
C13_AnswerKeepsResults ==
    [][\A r \in Slaves :
          Sends(r) =>
              /\ outbox'[r][Len(outbox'[r])] = results[r]
              /\ results'[r] = results[r]
              /\ pc'[r] = "recv"]_vars

\* A slave has answered with a dict that is not empty, and still has it
C13_Witness ==
    \E r \in Slaves :
        /\ sent[r].counts = 1
        /\ results[r] # EmptyCounts
        /\ pc[r] = "recv"

\* The sum of the tweetCount of the cells S of a dict
RECURSIVE TotalCount(_, _)
TotalCount(res, S) ==
    IF S = {} THEN 0
    ELSE LET g == CHOOSE h \in S : TRUE
         IN  res[g].tweetCount + TotalCount(res, S \ {g})

\* C14: while a process is in getResults, its dict is the tally of the lines
\* of its partition handled so far that parsed and lie in a cell: every
\* count is at least 1, the counts add up to the number of those lines, the
\* scores are the sums of their scores; and no step takes an entry away or
\* changes one otherwise than by adding one line to it.
C14_RunningTally ==
    /\ [](\A r \in Ranks :
            /\ results[r] = TallyOf(ProcessedSoFar(r))
            /\ \A g \in DOMAIN results[r] : results[r][g].tweetCount >= 1
            /\ TotalCount(results[r], DOMAIN results[r])
                  = Cardinality({i \in ProcessedSoFar(r) : Classified(file[i + 1])}))
    /\ [][\A r \in Ranks : \A g \in DOMAIN results[r] :
            /\ g \in DOMAIN results'[r]
            /\ \/ results'[r][g] = results[r][g]
               \/ results'[r][g].tweetCount = results[r][g].tweetCount + 1]_vars

\* A process in getResults has counted two lines in one cell and has passed
\* a line of its own that lies in no cell
C14_Witness ==
    \E r \in Ranks :
        /\ pc[r] = "getResults"
        /\ \E g \in DOMAIN results[r] : results[r][g].tweetCount = 2
        /\ \E i \in ProcessedSoFar(r) : Outcome(r, i) = "not_found"

\* Every process is at a point where it can do nothing: the master in the
\* recv of get_tweets for a slave that has ended without sending, the other
\* slaves ended or in comm.recv with nothing to receive
AllBlocked ==
    /\ pc[MASTER_RANK] = "recv_counts"
    /\ pc[loop + 1] = "KeyError"
    /\ outbox[loop + 1] = << >>
    /\ \A s \in Slaves :
          \/ Terminated(s)
          \/ pc[s] = "recv" /\ inbox[s] = << >>

\* C15: as long as the dict of some slave has not reached the master, the
\* master has printed nothing and has sent no 'exit', no slave has exited,
\* and no slave has been asked twice; a slave that has ended without
\* sending leaves the master in get_tweets for good, and once the others
\* wait in comm.recv no process can take a step.
C15_BlockedWithoutPayload ==
    /\ (\E r \in Slaves : sent[r].received = 0) =>
          /\ pc[MASTER_RANK] \in {"getResults", "KeyError", "send_return_data", "recv_counts"}
          /\ report = << >>
          /\ \A s \in Slaves :
                /\ sent[s].exit = 0
                /\ "exit" \notin Range(inbox[s])
                /\ pc[s] # "exited"
                /\ sent[s].return_data <= 1
    /\ \A r \in Slaves :
          pc[r] = "KeyError" => sent[r].counts = 0 /\ sent[r].received = 0
    /\ AllBlocked => ~ENABLED Next

\* Three processes: rank 1 has ended without sending, the master waits for
\* its dict, and rank 2, which has sent its own, waits in comm.recv
C15_Witness ==
    /\ size = 3
    /\ AllBlocked
    /\ pc[1] = "KeyError"
    /\ sent[2].counts = 1
    /\ pc[2] = "recv"

AllLines == 0..(Len(file) - 1)

\* C16: whatever the number of processes, the dict the master prints from
\* is the tally of all the lines of the file, which is the dict a single
\* process builds of the same file: every line that parsed and lies in a
\* cell is counted once.
C16_SameAsSingleProcess ==
    /\ pc[MASTER_RANK] = "done" =>
          /\ counts_master = TallyOf(AllLines)
          /\ report = Rows(TallyOf(AllLines))
          /\ TotalCount(counts_master, DOMAIN counts_master)
                = Cardinality({i \in AllLines : Classified(file[i + 1])})
    /\ (size = 1 /\ pc[MASTER_RANK] \in {"print", "done"}) =>
          results[MASTER_RANK] = TallyOf(AllLines)

\* MaxSize processes have handled a file of well-formed records, one line
\* each, and two of them have counted a record in the same cell
C16_Witness ==
    /\ pc[MASTER_RANK] = "done"
    /\ size = MaxSize
    /\ Len(file) >= MaxSize
    /\ \A i \in AllLines : file[i + 1].json /\ file[i + 1].hasCoordinates /\ file[i + 1].hasText
    /\ \E g \in DOMAIN counts_master : counts_master[g].tweetCount >= 2
    /\ \E r \in Slaves : results[r] # EmptyCounts

AllFinished == \A r \in Ranks : Finished(r)

Completed ==
    /\ pc[MASTER_RANK] = "done"
    /\ \A r \in Slaves :
          /\ sent[r].received = 1
          /\ sent[r].exit = 1
          /\ pc[r] = "exited"

\* C17: with every process scheduled fairly, once every process has
\* returned from getResults the master receives the dict of every slave and
\* prints the report, and every slave receives 'exit' and exits.
C17_Completes == AllFinished ~> Completed

\* MaxSize processes have run to their end and no message is left over
C17_Witness ==
    /\ size = MaxSize
    /\ Completed
    /\ \A r \in Ranks : inbox[r] = << >> /\ outbox[r] = << >>

====
